---------------------------- MODULE Spec2Model ----------------------------
(***************************************************************************)
(* Model of the SQL INSERT ... VALUES parsers of backend/scripts:          *)
(*   SQLDataLoader.parse_sql_values / parse_record_values                  *)
(*       (load_sql_data.py)                                                *)
(*   FullDatabaseCreator.parse_sql_insert_statements / parse_values_string *)
(*       (create_full_database.py)                                         *)
(* Text is a sequence of one-character strings.  Cursors (i) are 0-based   *)
(* as in the Python code; At(s, k) reads s[k].                             *)
(***************************************************************************)
EXTENDS Integers, Sequences, FiniteSets, TLC

(* ------------------------------ bounds -------------------------------- *)
MaxFields == 2      \* fields per row given to a tokenizer directly
MaxGroups == 2      \* row groups per INSERT statement
MaxStmts  == 2      \* INSERT statements per blob

(* --------------------------- text helpers ----------------------------- *)
At(s, k) == s[k + 1]

Whitespace == {" ", "\t", "\n"}

LowerLetters == <<"a","b","c","d","e","f","g","h","i","j","k","l","m",
                  "n","o","p","q","r","s","t","u","v","w","x","y","z">>
UpperLetters == <<"A","B","C","D","E","F","G","H","I","J","K","L","M",
                  "N","O","P","Q","R","S","T","U","V","W","X","Y","Z">>
Digits == {"0","1","2","3","4","5","6","7","8","9"}

\* str.upper() on one character
UpperChar(c) ==
  IF \E k \in 1..26 : LowerLetters[k] = c
  THEN UpperLetters[CHOOSE k \in 1..26 : LowerLetters[k] = c]
  ELSE c

\* str.upper()
Upper(s) == [k \in 1..Len(s) |-> UpperChar(s[k])]

\* str.strip()
Strip(s) ==
  LET keep == {k \in 1..Len(s) : s[k] \notin Whitespace}
  IN  IF keep = {} THEN <<>>
      ELSE SubSeq(s, CHOOSE k \in keep : \A m \in keep : k <= m,
                     CHOOSE k \in keep : \A m \in keep : k >= m)

KwNull   == <<"N","U","L","L">>
KwInsert == <<"I","N","S","E","R","T">>
KwInto   == <<"I","N","T","O">>
KwValues == <<"V","A","L","U","E","S">>

(* ----------------- value normalisation of a bare token ---------------- *)
\* the value at a comma taken without strip()
CommaValue_Untrimmed(current_value) ==
  IF Upper(current_value) = KwNull THEN <<>> ELSE current_value

\* value = current_value.strip(); '' if value.upper() == 'NULL' else value
\* at a comma
CommaValue(current_value) ==
  LET value == Strip(current_value)
  IN  IF Upper(value) = KwNull THEN <<>> ELSE value

\* the end-of-row rule without its NULL test
LastValue_NoNull(current_value) == Strip(current_value)

\* the same rule, repeated for the value left at the end of the row
LastValue(current_value) ==
  LET value == Strip(current_value)
  IN  IF Upper(value) = KwNull THEN <<>> ELSE value

(* ----------------------------- tokenizers ----------------------------- *)
\* a tokenizer call that starts inside a quote, as after a row whose
\* literal never closed
TokInit_InQuote(text) ==
  [str |-> text, i |-> 0, values |-> <<>>, current_value |-> <<>>,
   in_string |-> TRUE, escape_next |-> FALSE, paren_count |-> 0]

\* local state of one tokenizer call
TokInit(text) ==
  [str |-> text, i |-> 0, values |-> <<>>, current_value |-> <<>>,
   in_string |-> FALSE, escape_next |-> FALSE, paren_count |-> 0]

\* the closing quote with no skipping of the blanks after it
SkipBlanks_None(s, i) == i

\* while i + 1 < len(s) and s[i + 1] in ' \t\n': i += 1
RECURSIVE SkipBlanks(_, _)
SkipBlanks(s, i) ==
  IF i + 1 < Len(s) /\ At(s, i + 1) \in {" ", "\t", "\n"}
  THEN SkipBlanks(s, i + 1) ELSE i

\* the closing quote stepping over the next character with no test
SkipComma_PastEnd(s, i) == i + 1

\* the closing quote skipping two commas where the code skips one
SkipComma_Twice(s, i) ==
  IF i + 2 < Len(s) /\ At(s, i + 1) = "," /\ At(s, i + 2) = "," THEN i + 2
  ELSE IF i + 1 < Len(s) /\ At(s, i + 1) = "," THEN i + 1 ELSE i

\* if i + 1 < len(s) and s[i + 1] == ',': i += 1
SkipComma(s, i) ==
  IF i + 1 < Len(s) /\ At(s, i + 1) = "," THEN i + 1 ELSE i

\* the closing quote of a literal: append the buffer, skip blanks and comma
CloseQuote(t) ==
  [t EXCEPT !.in_string = FALSE,
            !.values = Append(t.values, t.current_value),
            !.current_value = <<>>,
            !.i = SkipComma(t.str, SkipBlanks(t.str, t.i)) + 1]

\* parse_record_values with the comma test placed before the in_string test
RecordStep_SplitInQuote(t) ==
  LET char == At(t.str, t.i) IN
  IF t.escape_next THEN
    [t EXCEPT !.current_value = Append(@, char), !.escape_next = FALSE,
              !.i = @ + 1]
  ELSE IF char = "\\" THEN
    [t EXCEPT !.escape_next = TRUE, !.current_value = Append(@, char),
              !.i = @ + 1]
  ELSE IF char = "'" THEN
    IF t.in_string THEN CloseQuote(t)
    ELSE [t EXCEPT !.in_string = TRUE, !.i = @ + 1]
  ELSE IF char = "," THEN
    [t EXCEPT !.values = Append(@, CommaValue(t.current_value)),
              !.current_value = <<>>, !.i = @ + 1]
  ELSE
    [t EXCEPT !.current_value = Append(@, char), !.i = @ + 1]

\* one iteration of the while loop of parse_record_values
RecordStep(t) ==
  LET char == At(t.str, t.i) IN
  IF t.escape_next THEN
    [t EXCEPT !.current_value = Append(@, char), !.escape_next = FALSE,
              !.i = @ + 1]
  ELSE IF char = "\\" THEN
    [t EXCEPT !.escape_next = TRUE, !.current_value = Append(@, char),
              !.i = @ + 1]
  ELSE IF char = "'" /\ ~t.escape_next THEN
    IF t.in_string THEN CloseQuote(t)
    ELSE [t EXCEPT !.in_string = TRUE, !.i = @ + 1]
  ELSE IF t.in_string THEN
    [t EXCEPT !.current_value = Append(@, char), !.i = @ + 1]
  ELSE IF char = "," /\ ~t.in_string THEN
    [t EXCEPT !.values = Append(@, CommaValue(t.current_value)),
              !.current_value = <<>>, !.i = @ + 1]
  ELSE
    [t EXCEPT !.current_value = Append(@, char), !.i = @ + 1]

\* parse_values_string with the escape flag left out: a backslash is an
\* ordinary character and the character after it is handled as any other
ValuesStep_EscapeIgnored(t) ==
  LET char == At(t.str, t.i) IN
  IF char = "'" THEN
    IF t.in_string THEN CloseQuote(t)
    ELSE [t EXCEPT !.in_string = TRUE, !.i = @ + 1]
  ELSE IF t.in_string THEN
    [t EXCEPT !.current_value = Append(@, char), !.i = @ + 1]
  ELSE IF char = "," /\ ~t.in_string /\ t.paren_count = 0 THEN
    [t EXCEPT !.values = Append(@, CommaValue(t.current_value)),
              !.current_value = <<>>, !.i = @ + 1]
  ELSE IF char = "(" /\ ~t.in_string THEN
    [t EXCEPT !.paren_count = @ + 1, !.current_value = Append(@, char),
              !.i = @ + 1]
  ELSE IF char = ")" /\ ~t.in_string THEN
    [t EXCEPT !.paren_count = @ - 1, !.current_value = Append(@, char),
              !.i = @ + 1]
  ELSE
    [t EXCEPT !.current_value = Append(@, char), !.i = @ + 1]

\* one iteration of the while loop of parse_values_string
ValuesStep(t) ==
  LET char == At(t.str, t.i) IN
  IF t.escape_next THEN
    [t EXCEPT !.current_value = Append(@, char), !.escape_next = FALSE,
              !.i = @ + 1]
  ELSE IF char = "\\" THEN
    [t EXCEPT !.escape_next = TRUE, !.current_value = Append(@, char),
              !.i = @ + 1]
  ELSE IF char = "'" /\ ~t.escape_next THEN
    IF t.in_string THEN CloseQuote(t)
    ELSE [t EXCEPT !.in_string = TRUE, !.i = @ + 1]
  ELSE IF t.in_string THEN
    [t EXCEPT !.current_value = Append(@, char), !.i = @ + 1]
  ELSE IF char = "," /\ ~t.in_string /\ t.paren_count = 0 THEN
    [t EXCEPT !.values = Append(@, CommaValue(t.current_value)),
              !.current_value = <<>>, !.i = @ + 1]
  ELSE IF char = "(" /\ ~t.in_string THEN
    [t EXCEPT !.paren_count = @ + 1, !.current_value = Append(@, char),
              !.i = @ + 1]
  ELSE IF char = ")" /\ ~t.in_string THEN
    [t EXCEPT !.paren_count = @ - 1, !.current_value = Append(@, char),
              !.i = @ + 1]
  ELSE
    [t EXCEPT !.current_value = Append(@, char), !.i = @ + 1]

\* "Handle last value": the code after the loop, and the returned list
HandleLast(t) ==
  IF Strip(t.current_value) # <<>>
  THEN Append(t.values, LastValue(t.current_value))
  ELSE t.values

\* the whole of parse_record_values as a function of its argument
RECURSIVE RecordLoop(_)
RecordLoop(t) == IF t.i < Len(t.str) THEN RecordLoop(RecordStep(t)) ELSE t
parse_record_values(record_str) == HandleLast(RecordLoop(TokInit(record_str)))

\* the whole of parse_values_string as a function of its argument
RECURSIVE ValuesLoop(_)
ValuesLoop(t) == IF t.i < Len(t.str) THEN ValuesLoop(ValuesStep(t)) ELSE t
parse_values_string(values_str) == HandleLast(ValuesLoop(TokInit(values_str)))


(* ------------------ the regular expressions, by hand ------------------ *)
\* Positions here are 1-based indexes into the text; 0 means "no match".

\* a keyword of the pattern at position p, under re.IGNORECASE
MatchKw(s, p, kw) ==
  /\ p >= 1
  /\ p + Len(kw) - 1 <= Len(s)
  /\ \A k \in 1..Len(kw) : UpperChar(s[p + k - 1]) = kw[k]

\* \s
IsSpace(c) == c \in Whitespace

\* \w
IsWord(c) == \/ \E k \in 1..26 : c = LowerLetters[k] \/ c = UpperLetters[k]
             \/ c \in Digits
             \/ c = "_"

\* the position after a maximal run of \s starting at p
RECURSIVE SkipSpace(_, _)
SkipSpace(s, p) ==
  IF p <= Len(s) /\ IsSpace(s[p]) THEN SkipSpace(s, p + 1) ELSE p

\* the position after a maximal run of \w starting at p
RECURSIVE SkipWord(_, _)
SkipWord(s, p) ==
  IF p <= Len(s) /\ IsWord(s[p]) THEN SkipWord(s, p + 1) ELSE p

\* the first position >= p holding c, or 0
FirstAt(s, p, c) ==
  LET hits == {q \in p..Len(s) : s[q] = c}
  IN  IF hits = {} THEN 0 ELSE CHOOSE q \in hits : \A r \in hits : q <= r

\* INSERT\s+INTO\s+\w+\s*\([^)]+\)\s+VALUES at p: the position after VALUES,
\* or 0.  Every quantifier is followed by a character it cannot match, so
\* the greedy match is the only one.
HeaderEnd(s, p) ==
  IF ~MatchKw(s, p, KwInsert) THEN 0 ELSE
  LET b == SkipSpace(s, p + 6) IN
  IF b = p + 6 \/ ~MatchKw(s, b, KwInto) THEN 0 ELSE
  LET d == SkipSpace(s, b + 4) IN
  IF d = b + 4 THEN 0 ELSE
  LET e == SkipWord(s, d) IN
  IF e = d THEN 0 ELSE
  LET f == SkipSpace(s, e) IN
  IF f > Len(s) \/ s[f] # "(" THEN 0 ELSE
  LET g == FirstAt(s, f + 1, ")") IN
  IF g = 0 \/ g = f + 1 THEN 0 ELSE
  LET h == SkipSpace(s, g + 1) IN
  IF h = g + 1 \/ ~MatchKw(s, h, KwValues) THEN 0 ELSE h + 6

\* the rest of an insert pattern from v, the position after VALUES:
\*   newline = TRUE :  \s*\n\s*\(([^;]+)\);     (load_sql_data.py)
\*   newline = FALSE:  \s*\(([^;]+)\);          (create_full_database.py)
\* [^;]+ cannot cross a ';', so the ';' of the match is the first one after
\* the opening parenthesis and the character before it must be ')'.
RowMatch(s, v, newline) ==
  LET w == SkipSpace(s, v)
      q == FirstAt(s, w + 1, ";")
  IN  IF /\ v # 0
         /\ newline => \E k \in v..(w - 1) : s[k] = "\n"
         /\ w <= Len(s) /\ s[w] = "("
         /\ q # 0 /\ q - 1 >= w + 2 /\ s[q - 1] = ")"
      THEN [ok |-> TRUE, group |-> SubSeq(s, w + 1, q - 2), end |-> q]
      ELSE [ok |-> FALSE, group |-> <<>>, end |-> 0]

\* re.findall(insert_pattern, sql_content, re.DOTALL | re.IGNORECASE)
RECURSIVE FindAllFrom(_, _, _)
FindAllFrom(s, p, newline) ==
  IF p > Len(s) THEN <<>>
  ELSE LET m == RowMatch(s, HeaderEnd(s, p), newline)
       IN  IF m.ok THEN <<m.group>> \o FindAllFrom(s, m.end + 1, newline)
           ELSE FindAllFrom(s, p + 1, newline)

\* the matches of the pattern of parse_sql_values
FindInserts(sql_content) == FindAllFrom(sql_content, 1, TRUE)

\* the matches of the pattern of parse_sql_insert_statements
FindInsertStatements(sql_content) == FindAllFrom(sql_content, 1, FALSE)

\* re.search(r'VALUES\s*\n(.*)', ...): [found, group(1)].  \s* is greedy, so
\* the \n of the pattern is the last newline of the blank run after VALUES.
SearchValues(sql_content) ==
  LET s == sql_content
      nls(p) == {k \in (p + 6)..(SkipSpace(s, p + 6) - 1) : s[k] = "\n"}
      starts == {p \in 1..Len(s) : MatchKw(s, p, KwValues) /\ nls(p) # {}}
  IN  IF starts = {} THEN [found |-> FALSE, group |-> <<>>]
      ELSE LET p == CHOOSE x \in starts : \A y \in starts : x <= y
               n == CHOOSE x \in nls(p) : \A y \in nls(p) : x >= y
           IN  [found |-> TRUE, group |-> SubSeq(s, n + 1, Len(s))]

(* --------------- the batch scan of parse_sql_values ------------------- *)
\* local state of the scan over values_section
ScanInit(values_section) ==
  [values_section |-> values_section, i |-> 0, current_record |-> <<>>,
   paren_count |-> 0, in_string |-> FALSE, escape_next |-> FALSE]

\* does this iteration reach "End of record" with a non-blank record?
ScanEmits(sc) ==
  /\ ~sc.escape_next
  /\ At(sc.values_section, sc.i) = ")"
  /\ ~sc.in_string
  /\ sc.paren_count - 1 = 0
  /\ Strip(sc.current_record) # <<>>

\* the batch scan with the in-quote test left out: parentheses inside a
\* literal are counted like those outside
ScanStep_ParensInQuote(sc) ==
  LET char == At(sc.values_section, sc.i) IN
  IF sc.escape_next THEN
    [sc EXCEPT !.current_record = Append(@, char), !.escape_next = FALSE,
               !.i = @ + 1]
  ELSE IF char = "\\" THEN
    [sc EXCEPT !.escape_next = TRUE, !.current_record = Append(@, char),
               !.i = @ + 1]
  ELSE IF char = "'" /\ ~sc.escape_next THEN
    [sc EXCEPT !.in_string = ~@, !.current_record = Append(@, char),
               !.i = @ + 1]
  ELSE IF char = "(" THEN
    IF sc.paren_count + 1 = 1
    THEN [sc EXCEPT !.paren_count = @ + 1, !.current_record = <<>>,
                    !.i = @ + 1]
    ELSE [sc EXCEPT !.paren_count = @ + 1,
                    !.current_record = Append(@, char), !.i = @ + 1]
  ELSE IF char = ")" THEN
    IF sc.paren_count - 1 = 0
    THEN [sc EXCEPT !.paren_count = @ - 1, !.current_record = <<>>,
                    !.i = @ + 1]
    ELSE [sc EXCEPT !.paren_count = @ - 1,
                    !.current_record = Append(@, char), !.i = @ + 1]
  ELSE [sc EXCEPT !.current_record = Append(@, char), !.i = @ + 1]

\* one iteration of the while loop, the records.append left to the caller
ScanStep(sc) ==
  LET char == At(sc.values_section, sc.i) IN
  IF sc.escape_next THEN
    [sc EXCEPT !.current_record = Append(@, char), !.escape_next = FALSE,
               !.i = @ + 1]
  ELSE IF char = "\\" THEN
    [sc EXCEPT !.escape_next = TRUE, !.current_record = Append(@, char),
               !.i = @ + 1]
  ELSE IF char = "'" /\ ~sc.escape_next THEN
    [sc EXCEPT !.in_string = ~@, !.current_record = Append(@, char),
               !.i = @ + 1]
  ELSE IF ~sc.in_string THEN
    IF char = "(" THEN
      IF sc.paren_count + 1 = 1
      THEN [sc EXCEPT !.paren_count = @ + 1, !.current_record = <<>>,
                      !.i = @ + 1]
      ELSE [sc EXCEPT !.paren_count = @ + 1,
                      !.current_record = Append(@, char), !.i = @ + 1]
    ELSE IF char = ")" THEN
      IF sc.paren_count - 1 = 0
      THEN [sc EXCEPT !.paren_count = @ - 1, !.current_record = <<>>,
                      !.i = @ + 1]
      ELSE [sc EXCEPT !.paren_count = @ - 1,
                      !.current_record = Append(@, char), !.i = @ + 1]
    ELSE [sc EXCEPT !.current_record = Append(@, char), !.i = @ + 1]
  ELSE
    [sc EXCEPT !.current_record = Append(@, char), !.i = @ + 1]

\* "Handle last record": is the text left after the loop parsed as a row?
LastRecord(sc) == Strip(sc.current_record) # <<>> /\ sc.paren_count = 0

(* ------------------------------ inputs -------------------------------- *)
\* field texts written in a row
FieldA      == <<"'", "a", "'">>                         \* 'a'
FieldX      == <<"'", "x", "'">>                         \* 'x'
FieldYZ     == <<"'", "y", ",", " ", "z", "'">>          \* 'y, z'
FieldVP     == <<"'", "v", ",", "(", "p", ")", "'">>     \* 'v,(p)'
FieldEmptyQ == <<"'", "'">>                              \* ''
FieldNullQ  == <<"'", "N", "U", "L", "L", "'">>          \* 'NULL'
FieldNULL   == <<"N", "U", "L", "L">>                    \* NULL
FieldNull   == <<"N", "u", "l", "l">>                    \* Null
Fieldnull   == <<"n", "u", "l", "l">>                    \* null
Field42     == <<"4", "2">>                              \* 42
FieldNone   == <<>>                                      \* nothing at all
FieldEsc    == <<"'", "a", "\\", "'", "b", "'">>         \* 'a\'b'
FieldJoAnn  == <<"'", "J", "o", ",", " ", "A", "n", "n", "'">>

Fields == {FieldA, FieldYZ, FieldVP, FieldEmptyQ, FieldNullQ, FieldNULL,
           FieldNull, Fieldnull, Field42, FieldNone, FieldEsc}

FieldSeps == {<<",">>, <<",", " ">>}

SeqsUpTo(S, n) == UNION {[1..k -> S] : k \in 1..n}

RECURSIVE Join(_, _)
Join(parts, sep) ==
  IF parts = <<>> THEN <<>>
  ELSE IF Len(parts) = 1 THEN parts[1]
  ELSE parts[1] \o sep \o Join(Tail(parts), sep)

\* a row: its fields and the separator written between them
Row(fs, sp) == [fields |-> fs, fsep |-> sp]
RenderRow(r) == Join(r.fields, r.fsep)

\* rows handed to a tokenizer directly
RichRows ==
  {Row(fs, sp) : fs \in SeqsUpTo(Fields, MaxFields), sp \in FieldSeps}

\* bare fields with parentheses, escapes and a semicolon literal
FieldFn       == <<"f", "(", "1", ",", " ", "2", ")">>   \* f(1, 2)
FieldEscComma == <<"a", "\\", ",", "b">>                 \* a\,b
FieldEscQuote == <<"x", "\\", "'", "y">>                 \* x\'y
FieldEscOpen  == <<"\\", "(", "a">>                      \* \(a
FieldEscClose == <<"\\", ")">>                           \* \)
FieldSemi     == <<"'", "a", ";", "b", "'">>             \* 'a;b'

BareFields == {FieldFn, FieldEscComma, FieldEscQuote, FieldEscOpen, Field42}

\* rows of bare fields handed to a tokenizer directly
BareRows ==
  {Row(fs, sp) : fs \in SeqsUpTo(BareFields, MaxFields), sp \in FieldSeps}

\* rows of three fields, the middle one empty: 'a',,42
GapRows ==
  {Row(<<f, FieldNone, g>>, sp) :
     f \in {FieldA, Field42}, g \in {FieldA, Field42}, sp \in FieldSeps}

\* rows whose separator has blanks before the comma: 'a' ,42
BlankSeps == {<<" ", ",">>, <<" ", "\t", "\n", ",">>}

SpacedRows ==
  {Row(<<f, g>>, sp) :
     f \in {FieldA, FieldYZ}, g \in {FieldA, Field42, FieldNULL},
     sp \in BlankSeps}

\* rows of bare fields with blanks on both sides of the comma: 42 , a b
FieldInner == <<"a", " ", "b">>                          \* a b

PaddedRows ==
  {Row(<<f, g>>, <<" ", ",", " ">>) :
     f \in {Field42, FieldInner, FieldEscComma},
     g \in {Field42, FieldInner, FieldEscComma}}

\* rows written in the row groups of a blob
SmallRows == {Row(<<FieldX>>, <<",">>), Row(<<FieldYZ>>, <<",">>)}

ColsA   == <<"(", "a", ")">>
ColsAB  == <<"(", "a", ",", "b", ")">>
ColsABC == <<"(", "a", ",", "b", ",", "c", ")">>

\* text that ends a blob in the middle of a row or of a literal
TailOpenQuote == <<"(", "'", "a", "b">>        \* ('ab
TailOpenRow   == <<"(", "1">>                  \* (1
TailBareQuote == <<"'", "a", "b">>             \* 'ab
TailUnterminated ==
  <<"(", "'", "u", "n", "t", "e", "r", "m", "i", "n", "a", "t", "e", "d">>
Tails == {TailOpenQuote, TailOpenRow, TailBareQuote}

\* blank text written between VALUES and the first row group, with the
\* separator written between row groups in that layout
Layouts == {[sep |-> <<" ">>, gsep |-> <<",">>],
            [sep |-> <<"\n">>, gsep |-> <<",", "\n">>]}

Blob(st, cl, lay, tl) ==
  [stmts |-> st, cols |-> cl, sep |-> lay.sep, gsep |-> lay.gsep, tail |-> tl]

\* well-formed blobs: 1..MaxStmts statements of 1..MaxGroups row groups
WellFormedBlobs ==
  {Blob(st, cl, lay, <<>>) :
     st \in SeqsUpTo(SeqsUpTo(SmallRows, MaxGroups), MaxStmts),
     cl \in {ColsAB, <<>>}, lay \in Layouts}

\* blobs whose only statement breaks off in a tail
MalformedBlobs ==
  {Blob(<<gs>>, cl, lay, tl) :
     gs \in {<<>>} \cup SeqsUpTo(SmallRows, 1),
     cl \in {ColsAB, <<>>}, lay \in Layouts, tl \in Tails}

\* INSERT INTO T (a,b,c) VALUES ('Jo, Ann', NULL, 42);
ExampleSingle ==
  Blob(<< <<Row(<<FieldJoAnn, FieldNULL, Field42>>, <<",", " ">>)>> >>,
       ColsABC, [sep |-> <<" ">>, gsep |-> <<",">>], <<>>)

\* INSERT INTO T (a,b) VALUES ('x'),('y, z');
ExampleBatch ==
  Blob(<< <<Row(<<FieldX>>, <<",">>), Row(<<FieldYZ>>, <<",">>)>> >>,
       ColsAB, [sep |-> <<" ">>, gsep |-> <<",">>], <<>>)

\* INSERT INTO T (a) VALUES ('unterminated
ExampleUnterminated ==
  Blob(<< <<>> >>, ColsA, [sep |-> <<" ">>, gsep |-> <<",">>],
       TailUnterminated)

\* blobs for the batch scan whose rows hold escaped characters
EscRows == {Row(<<FieldEsc>>, <<",">>),
            Row(<<FieldEscClose, Field42>>, <<",", " ">>)}

EscBlobs ==
  {Blob(<<gs>>, <<>>, [sep |-> <<"\n">>, gsep |-> <<",", "\n">>], <<>>) :
     gs \in SeqsUpTo(EscRows, MaxGroups)}

\* blobs for the batch scan whose rows hold parentheses, inside a literal
\* and nested outside one
ParenRows == {Row(<<FieldVP>>, <<",">>), Row(<<FieldFn>>, <<",">>)}

ParenBlobs ==
  {Blob(<<gs>>, <<>>, [sep |-> <<"\n">>, gsep |-> <<",", "\n">>], <<>>) :
     gs \in SeqsUpTo(ParenRows, MaxGroups)}

\* two statements, the literal of the first one never closed: ('x); ('x');
FieldOpenQ == <<"'", "x">>                               \* 'x

OpenBlobs ==
  {Blob(<< <<Row(<<FieldOpenQ>>, <<",">>)>>, <<Row(<<FieldX>>, <<",">>)>> >>,
        ColsAB, lay, <<>>) : lay \in Layouts}

\* statements with a column list, with and without a semicolon inside
\* their literal
SemiBlobs ==
  {Blob(st, ColsAB, [sep |-> <<"\n">>, gsep |-> <<",", "\n">>], <<>>) :
     st \in SeqsUpTo({<<Row(<<FieldSemi>>, <<",">>)>>,
                      <<Row(<<FieldX>>, <<",">>)>>}, MaxStmts)}

Blobs == WellFormedBlobs \cup MalformedBlobs
           \cup {ExampleSingle, ExampleBatch, ExampleUnterminated}
           \cup EscBlobs \cup SemiBlobs \cup ParenBlobs \cup OpenBlobs

Header(cols) ==
  KwInsert \o <<" ">> \o KwInto \o <<" ", "T", " ">>
    \o (IF cols = <<>> THEN <<>> ELSE cols \o <<" ">>) \o KwValues

RenderGroups(groups, gsep) ==
  Join([k \in 1..Len(groups) |-> <<"(">> \o RenderRow(groups[k]) \o <<")">>],
       gsep)

RenderStmt(b, k) ==
  Header(b.cols) \o b.sep \o RenderGroups(b.stmts[k], b.gsep)
    \o (IF b.tail = <<>> THEN <<";">>
        ELSE (IF b.stmts[k] = <<>> THEN <<>> ELSE b.gsep) \o b.tail)

\* the text of a blob: its statements, one per line
Render(b) == Join([k \in 1..Len(b.stmts) |-> RenderStmt(b, k)], <<"\n">>)

(* ------------------------------ state --------------------------------- *)
VARIABLES
  call,         \* the method that was called
  src,          \* the structure the input text was written from
  sql_content,  \* the argument of a parser call
  pc,           \* where the call stands: start, loop, scan, tok, done
  matches,      \* the matches of the insert pattern still to be parsed
  scan,         \* the local variables of the batch scan
  tok,          \* the local variables of the running tokenizer call
  ret,          \* where the running tokenizer call returns to
  records,      \* the list a parser is building
  log,          \* what the call has written to the logger
  returned,     \* the value the call returned
  loader,       \* the local variables of a running load_* call
  callers,      \* the calls of several callers running side by side
  object        \* the fields of the object the methods are called on

vars == <<call, src, sql_content, pc, matches, scan, tok, ret, records, log,
          returned, loader, callers, object>>

Parsers    == {"parse_sql_values", "parse_sql_insert_statements"}
Tokenizers == {"parse_record_values", "parse_values_string"}

LogNoValues   == [level |-> "error", msg |-> "No VALUES section found in SQL"]
LogIndividual ==
  [level |-> "info", msg |-> "Parsed records from individual INSERT statements"]
LogBatch      == [level |-> "info", msg |-> "Parsed records from SQL"]

\* __init__: self.db_path, self.sql_files_dir
NewObject ==
  [db_path |-> "kms_v1.db", sql_files_dir |-> "../db-references/ddl_dml"]

\* no load_* call is running
NoLoader == [pc |-> "none"]

Init ==
  /\ \/ /\ call \in Parsers
        /\ src \in Blobs
        /\ sql_content = Render(src)
        /\ pc = "start"
        /\ tok = TokInit(<<>>)
     \/ /\ call \in Tokenizers
        /\ src \in RichRows \cup BareRows \cup GapRows \cup SpacedRows
                   \cup PaddedRows
        /\ sql_content = <<>>
        /\ pc = "tok"
        /\ tok = TokInit(RenderRow(src))
  /\ matches = <<>>
  /\ scan = ScanInit(<<>>)
  /\ ret = "caller"
  /\ records = <<>>
  /\ log = <<>>
  /\ returned = <<>>
  /\ loader = NoLoader
  /\ callers = <<>>
  /\ object = NewObject

(* --------------------------- parse_sql_values ------------------------- *)
\* no insert statement and no VALUES section: log the error, return []
NoValuesSection ==
  /\ pc = "start" /\ call = "parse_sql_values"
  /\ FindInserts(sql_content) = <<>>
  /\ ~SearchValues(sql_content).found
  /\ log' = Append(log, LogNoValues)
  /\ returned' = <<>>
  /\ pc' = "done"
  /\ UNCHANGED <<loader, callers, object>>
  /\ UNCHANGED <<call, src, sql_content, matches, scan, tok, ret, records>>

\* no insert statement matched: scan the text after VALUES
BatchFormat ==
  /\ pc = "start" /\ call = "parse_sql_values"
  /\ FindInserts(sql_content) = <<>>
  /\ SearchValues(sql_content).found
  /\ scan' = ScanInit(SearchValues(sql_content).group)
  /\ pc' = "scan"
  /\ UNCHANGED <<loader, callers, object>>
  /\ UNCHANGED <<call, src, sql_content, matches, tok, ret, records, log,
                 returned>>

\* insert statements matched: parse each one
IndividualInserts ==
  /\ pc = "start" /\ call = "parse_sql_values"
  /\ FindInserts(sql_content) # <<>>
  /\ matches' = FindInserts(sql_content)
  /\ pc' = "loop"
  /\ UNCHANGED <<loader, callers, object>>
  /\ UNCHANGED <<call, src, sql_content, scan, tok, ret, records, log,
                 returned>>

\* one iteration of the scan; at the end of a non-blank record the text
\* between the outer parentheses goes to parse_record_values
ScanChar ==
  /\ pc = "scan"
  /\ scan.i < Len(scan.values_section)
  /\ scan' = ScanStep(scan)
  /\ IF ScanEmits(scan)
     THEN /\ tok' = TokInit(Strip(scan.current_record))
          /\ ret' = "scan"
          /\ pc' = "tok"
     ELSE UNCHANGED <<tok, ret, pc>>
  /\ UNCHANGED <<loader, callers, object>>
  /\ UNCHANGED <<call, src, sql_content, matches, records, log, returned>>

\* after the scan: text is left at depth 0, it is parsed as one more record
ScanLastRecord ==
  /\ pc = "scan"
  /\ scan.i >= Len(scan.values_section)
  /\ LastRecord(scan)
  /\ tok' = TokInit(Strip(scan.current_record))
  /\ ret' = "last"
  /\ pc' = "tok"
  /\ UNCHANGED <<loader, callers, object>>
  /\ UNCHANGED <<call, src, sql_content, matches, scan, records, log,
                 returned>>

\* after the scan: nothing to add, log and return
ScanReturn ==
  /\ pc = "scan"
  /\ scan.i >= Len(scan.values_section)
  /\ ~LastRecord(scan)
  /\ log' = Append(log, LogBatch)
  /\ returned' = records
  /\ pc' = "done"
  /\ UNCHANGED <<loader, callers, object>>
  /\ UNCHANGED <<call, src, sql_content, matches, scan, tok, ret, records>>

(* --------------------- parse_sql_insert_statements -------------------- *)
FindStatements ==
  /\ pc = "start" /\ call = "parse_sql_insert_statements"
  /\ matches' = FindInsertStatements(sql_content)
  /\ pc' = "loop"
  /\ UNCHANGED <<loader, callers, object>>
  /\ UNCHANGED <<call, src, sql_content, scan, tok, ret, records, log,
                 returned>>

(* ------------------ the loop over the matches (both) ------------------ *)
\* for match in matches: tokenize match.strip()
NextMatch ==
  /\ pc = "loop"
  /\ matches # <<>>
  /\ tok' = TokInit(Strip(Head(matches)))
  /\ matches' = Tail(matches)
  /\ ret' = "loop"
  /\ pc' = "tok"
  /\ UNCHANGED <<loader, callers, object>>
  /\ UNCHANGED <<call, src, sql_content, scan, records, log, returned>>

\* the loop is over: return records (parse_sql_values logs the count)
LoopReturn ==
  /\ pc = "loop"
  /\ matches = <<>>
  /\ log' = IF call = "parse_sql_values" THEN Append(log, LogIndividual)
            ELSE log
  /\ returned' = records
  /\ pc' = "done"
  /\ UNCHANGED <<loader, callers, object>>
  /\ UNCHANGED <<call, src, sql_content, matches, scan, tok, ret, records>>

(* ----------------------------- tokenizers ----------------------------- *)
\* one iteration of the loop of parse_record_values
RecordIter ==
  /\ pc = "tok"
  /\ call \in {"parse_sql_values", "parse_record_values"}
  /\ tok.i < Len(tok.str)
  /\ tok' = RecordStep(tok)
  /\ UNCHANGED <<loader, callers, object>>
  /\ UNCHANGED <<call, src, sql_content, pc, matches, scan, ret, records, log,
                 returned>>

\* one iteration of the loop of parse_values_string
ValuesIter ==
  /\ pc = "tok"
  /\ call \in {"parse_sql_insert_statements", "parse_values_string"}
  /\ tok.i < Len(tok.str)
  /\ tok' = ValuesStep(tok)
  /\ UNCHANGED <<loader, callers, object>>
  /\ UNCHANGED <<call, src, sql_content, pc, matches, scan, ret, records, log,
                 returned>>

\* the tokenizer returns into the loop: "if values: records.append(values)"
ReturnToLoop ==
  /\ pc = "tok" /\ ret = "loop"
  /\ tok.i >= Len(tok.str)
  /\ records' = IF HandleLast(tok) # <<>> THEN Append(records, HandleLast(tok))
                ELSE records
  /\ pc' = "loop"
  /\ UNCHANGED <<loader, callers, object>>
  /\ UNCHANGED <<call, src, sql_content, matches, scan, tok, ret, log,
                 returned>>

\* the tokenizer returns into the scan: records.append(...)
ReturnToScan ==
  /\ pc = "tok" /\ ret = "scan"
  /\ tok.i >= Len(tok.str)
  /\ records' = Append(records, HandleLast(tok))
  /\ pc' = "scan"
  /\ UNCHANGED <<loader, callers, object>>
  /\ UNCHANGED <<call, src, sql_content, matches, scan, tok, ret, log,
                 returned>>

\* the tokenizer returns after the scan: append, log and return
ReturnLast ==
  /\ pc = "tok" /\ ret = "last"
  /\ tok.i >= Len(tok.str)
  /\ records' = Append(records, HandleLast(tok))
  /\ log' = Append(log, LogBatch)
  /\ returned' = records'
  /\ pc' = "done"
  /\ UNCHANGED <<loader, callers, object>>
  /\ UNCHANGED <<call, src, sql_content, matches, scan, tok, ret>>

\* a tokenizer that was called directly returns its values
ReturnValues ==
  /\ pc = "tok" /\ ret = "caller"
  /\ tok.i >= Len(tok.str)
  /\ returned' = HandleLast(tok)
  /\ pc' = "done"
  /\ UNCHANGED <<loader, callers, object>>
  /\ UNCHANGED <<call, src, sql_content, matches, scan, tok, ret, records,
                 log>>

Next ==
  \/ NoValuesSection
  \/ BatchFormat
  \/ IndividualInserts
  \/ ScanChar
  \/ ScanLastRecord
  \/ ScanReturn
  \/ FindStatements
  \/ NextMatch
  \/ LoopReturn
  \/ RecordIter
  \/ ValuesIter
  \/ ReturnToLoop
  \/ ReturnToScan
  \/ ReturnLast
  \/ ReturnValues

Spec == Init /\ [][Next]_vars

(* ------------------------------ loaders ------------------------------- *)
MaxRecords == 2     \* parsed rows handed to a loader

Loaders == {"load_sql_file", "load_sample_cases_500"}

\* load_sql_file: the names in the column list of its INSERT, the '?'
\* placeholders, the width rows are padded to and the width of the slice
LoadSqlFileColumns      == 57
LoadSqlFilePlaceholders == 58
LoadSqlFilePad          == 58
LoadSqlFileSlice        == 58

\* load_sample_cases_500: len(case_fields), the '?' placeholders, the width
\* rows are padded to and the width of the slice
SampleCasesColumns      == 57
SampleCasesPlaceholders == 57
SampleCasesPad          == 57
SampleCasesSlice        == 57

Columns(fn) ==
  IF fn = "load_sql_file" THEN LoadSqlFileColumns ELSE SampleCasesColumns
Placeholders(fn) ==
  IF fn = "load_sql_file" THEN LoadSqlFilePlaceholders
  ELSE SampleCasesPlaceholders
PadWidth(fn) ==
  IF fn = "load_sql_file" THEN LoadSqlFilePad ELSE SampleCasesPad
SliceWidth(fn) ==
  IF fn = "load_sql_file" THEN LoadSqlFileSlice ELSE SampleCasesSlice

\* while len(record) < n: record.append('')
Pad(record, n) ==
  IF Len(record) < n
  THEN record \o [k \in 1..(n - Len(record)) |-> <<>>]
  ELSE record

\* record[:n]
Slice(record, n) ==
  IF Len(record) > n THEN SubSeq(record, 1, n) ELSE record

\* the parameters handed to cursor.execute for a row
BoundValues(fn, record) == Slice(Pad(record, PadWidth(fn)), SliceWidth(fn))

\* what cursor.execute can do with a statement of c columns and p
\* placeholders and a list of values: sqlite3 rejects the statement when
\* the counts disagree; otherwise the row is inserted, or violates the
\* UNIQUE constraint, or another integrity rule, or fails otherwise
StoreOutcomes(c, p, values) ==
  IF c # p \/ Len(values) # p THEN {"error"}
  ELSE {"inserted", "unique", "integrity", "error"}

\* inserted_count after a write
CountAfter_AllAttempts(inserted_count, outcome) == inserted_count + 1

CountAfter(inserted_count, outcome) ==
  IF outcome = "inserted" THEN inserted_count + 1 ELSE inserted_count

\* what the handlers of the try block log for an outcome
LogAfter(outcome) ==
  IF outcome = "inserted" THEN <<>>
  ELSE IF outcome = "unique"
    THEN <<[level |-> "debug", msg |-> "Skipping duplicate case"]>>
  ELSE IF outcome = "integrity"
    THEN <<[level |-> "error", msg |-> "Integrity error"]>>
  ELSE <<[level |-> "error", msg |-> "Error inserting record"],
         [level |-> "debug", msg |-> "Record data"]>>

\* what a load reports when it ends: the count it logs and returns
LoadSummary(l) == [inserted |-> l.inserted_count]

\* rows as a parser returns them: n values, the first one the case number
ParsedRow(n) == [k \in 1..n |-> IF k = 1 THEN <<"7">> ELSE <<"v">>]

ParsedRows ==
  {ParsedRow(n) : n \in {1, SampleCasesColumns, SampleCasesColumns + 1,
                         SampleCasesColumns + 2}}

ParsedLists == {<<>>} \cup SeqsUpTo(ParsedRows, MaxRecords)

\* the locals of a load_* call when parse has returned `parsed`
LoaderInit(fn, parsed) ==
  [fn |-> fn, pc |-> "start", parsed |-> parsed, records |-> parsed,
   idx |-> 0, inserted_count |-> 0, attempts |-> <<>>, log |-> <<>>,
   returned |-> 0]

\* "if not records": warn and return 0
LoadNothing ==
  /\ loader.pc = "start"
  /\ loader.records = <<>>
  /\ loader' = [loader EXCEPT
       !.log = Append(@, [level |-> "warning", msg |-> "No records found"]),
       !.returned = 0, !.pc = "done"]
  /\ UNCHANGED <<call, src, sql_content, pc, matches, scan, tok, ret, records,
                 log, returned, callers, object>>

\* connect and enter the loop over the records
LoadConnect ==
  /\ loader.pc = "start"
  /\ loader.records # <<>>
  /\ loader' = [loader EXCEPT !.pc = "loop"]
  /\ UNCHANGED <<call, src, sql_content, pc, matches, scan, tok, ret, records,
                 log, returned, callers, object>>

\* one iteration of "for record in records": pad, slice, execute, and the
\* handler of the outcome
Write(outcome) ==
  /\ loader.pc = "loop"
  /\ loader.idx < Len(loader.records)
  /\ LET k      == loader.idx + 1
         record == loader.records[k]
         values == BoundValues(loader.fn, record)
     IN  /\ outcome \in StoreOutcomes(Columns(loader.fn),
                                      Placeholders(loader.fn), values)
         /\ loader' = [loader EXCEPT
              !.records[k] = Pad(record, PadWidth(loader.fn)),
              !.idx = k,
              !.inserted_count = CountAfter(@, outcome),
              !.attempts = Append(@, [row |-> k, values |-> values,
                                      columns |-> Columns(loader.fn),
                                      outcome |-> outcome]),
              !.log = @ \o LogAfter(outcome)]
  /\ UNCHANGED <<call, src, sql_content, pc, matches, scan, tok, ret, records,
                 log, returned, callers, object>>

WriteInserted       == Write("inserted")
WriteDuplicate      == Write("unique")
WriteIntegrityError == Write("integrity")
WriteFailed         == Write("error")

\* after the loop: commit, close, log the count and return it
LoadReturn ==
  /\ loader.pc = "loop"
  /\ loader.idx >= Len(loader.records)
  /\ loader' = [loader EXCEPT
       !.log = Append(@, [level |-> "info", msg |-> "Inserted records"]),
       !.returned = LoadSummary(loader).inserted, !.pc = "done"]
  /\ UNCHANGED <<call, src, sql_content, pc, matches, scan, tok, ret, records,
                 log, returned, callers, object>>

\* no parser or tokenizer call of the single-call specification is running
NoCall ==
  /\ call = "none" /\ src = <<>> /\ sql_content = <<>> /\ pc = "none"
  /\ matches = <<>> /\ scan = ScanInit(<<>>) /\ tok = TokInit(<<>>)
  /\ ret = "caller" /\ records = <<>> /\ log = <<>> /\ returned = <<>>

LoadInit ==
  /\ NoCall
  /\ \E fn \in Loaders, parsed \in ParsedLists :
        loader = LoaderInit(fn, parsed)
  /\ callers = <<>>
  /\ object = NewObject

LoadNext ==
  \/ LoadNothing
  \/ LoadConnect
  \/ WriteInserted
  \/ WriteDuplicate
  \/ WriteIntegrityError
  \/ WriteFailed
  \/ LoadReturn

LoadSpec == LoadInit /\ [][LoadNext]_vars

(* ----------------- two callers running side by side ------------------- *)
Callers == {1, 2}

\* the local variables of one parser call
Frame(method, text) ==
  [call |-> method, sql_content |-> text, pc |-> "start", matches |-> <<>>,
   scan |-> ScanInit(<<>>), tok |-> TokInit(<<>>), ret |-> "caller",
   records |-> <<>>, returned |-> <<>>]

\* the step a call takes from the point where it stands: the same steps as
\* the single call above, on the local variables of the frame
FrameStep(f) ==
  CASE f.pc = "start" /\ f.call = "parse_sql_values" ->
         IF FindInserts(f.sql_content) # <<>>
         THEN [f EXCEPT !.matches = FindInserts(f.sql_content), !.pc = "loop"]
         ELSE IF SearchValues(f.sql_content).found
         THEN [f EXCEPT !.scan = ScanInit(SearchValues(f.sql_content).group),
                        !.pc = "scan"]
         ELSE [f EXCEPT !.returned = <<>>, !.pc = "done"]
    [] f.pc = "start" /\ f.call = "parse_sql_insert_statements" ->
         [f EXCEPT !.matches = FindInsertStatements(f.sql_content),
                   !.pc = "loop"]
    [] f.pc = "loop" ->
         IF f.matches # <<>>
         THEN [f EXCEPT !.tok = TokInit(Strip(Head(f.matches))),
                        !.matches = Tail(f.matches),
                        !.ret = "loop", !.pc = "tok"]
         ELSE [f EXCEPT !.returned = f.records, !.pc = "done"]
    [] f.pc = "scan" ->
         IF f.scan.i < Len(f.scan.values_section)
         THEN IF ScanEmits(f.scan)
              THEN [f EXCEPT !.scan = ScanStep(f.scan),
                             !.tok = TokInit(Strip(f.scan.current_record)),
                             !.ret = "scan", !.pc = "tok"]
              ELSE [f EXCEPT !.scan = ScanStep(f.scan)]
         ELSE IF LastRecord(f.scan)
         THEN [f EXCEPT !.tok = TokInit(Strip(f.scan.current_record)),
                        !.ret = "last", !.pc = "tok"]
         ELSE [f EXCEPT !.returned = f.records, !.pc = "done"]
    [] f.pc = "tok" ->
         IF f.tok.i < Len(f.tok.str)
         THEN [f EXCEPT !.tok = IF f.call = "parse_sql_values"
                                 THEN RecordStep(f.tok)
                                 ELSE ValuesStep(f.tok)]
         ELSE IF f.ret = "loop"
         THEN [f EXCEPT !.records = IF HandleLast(f.tok) # <<>>
                                     THEN Append(@, HandleLast(f.tok))
                                     ELSE @,
                        !.pc = "loop"]
         ELSE IF f.ret = "scan"
         THEN [f EXCEPT !.records = Append(@, HandleLast(f.tok)),
                        !.pc = "scan"]
         ELSE [f EXCEPT !.records = Append(@, HandleLast(f.tok)),
                        !.returned = Append(f.records, HandleLast(f.tok)),
                        !.pc = "done"]
    [] OTHER -> f

\* what the step of FrameStep writes to the module's logger
FrameLog(f) ==
  IF f.call # "parse_sql_values" THEN <<>>
  ELSE IF f.pc = "start" /\ FindInserts(f.sql_content) = <<>>
                         /\ ~SearchValues(f.sql_content).found
  THEN <<LogNoValues>>
  ELSE IF f.pc = "loop" /\ f.matches = <<>> THEN <<LogIndividual>>
  ELSE IF f.pc = "scan" /\ f.scan.i >= Len(f.scan.values_section)
                        /\ ~LastRecord(f.scan)
  THEN <<LogBatch>>
  ELSE IF f.pc = "tok" /\ f.tok.i >= Len(f.tok.str) /\ f.ret = "last"
  THEN <<LogBatch>>
  ELSE <<>>

\* a call run to its end with no other caller
RECURSIVE RunFrame(_)
RunFrame(f) == IF f.pc = "done" THEN f ELSE RunFrame(FrameStep(f))

\* the variables a step of caller c works on: all of them are locals of
\* the call, none is a field of the object or a module variable
Locals_Shared(cs, c) == cs[1]

Locals(cs, c) == cs[c]

\* INSERT INTO T (a,b) VALUES\n('x');
ConcIndividual ==
  Blob(<< <<Row(<<FieldX>>, <<",">>)>> >>, ColsAB,
       [sep |-> <<"\n">>, gsep |-> <<",", "\n">>], <<>>)

\* INSERT INTO T VALUES\n('x'),\n('y, z');
ConcBatch ==
  Blob(<< <<Row(<<FieldX>>, <<",">>), Row(<<FieldYZ>>, <<",">>)>> >>, <<>>,
       [sep |-> <<"\n">>, gsep |-> <<",", "\n">>], <<>>)

ConcBlobs == {ConcIndividual, ConcBatch, ExampleBatch}

\* a step of caller c that is inside the method (start, loop or scan)
CallerStep(c) ==
  /\ callers[c].pc \in {"start", "loop", "scan"}
  /\ callers' = [callers EXCEPT ![c] = FrameStep(Locals(callers, c))]
  /\ log' = log \o FrameLog(Locals(callers, c))
  /\ UNCHANGED <<call, src, sql_content, pc, matches, scan, tok, ret, records,
                 returned, loader, object>>

\* a step of caller c that is inside the tokenizer the method called
CallerTokenize(c) ==
  /\ callers[c].pc = "tok"
  /\ callers' = [callers EXCEPT ![c] = FrameStep(Locals(callers, c))]
  /\ log' = log \o FrameLog(Locals(callers, c))
  /\ UNCHANGED <<call, src, sql_content, pc, matches, scan, tok, ret, records,
                 returned, loader, object>>

ConcInit ==
  /\ call = "none" /\ sql_content = <<>> /\ pc = "none"
  /\ matches = <<>> /\ scan = ScanInit(<<>>) /\ tok = TokInit(<<>>)
  /\ ret = "caller" /\ records = <<>> /\ log = <<>> /\ returned = <<>>
  /\ loader = NoLoader
  /\ object = NewObject
  /\ src \in [Callers -> [call : Parsers, blob : ConcBlobs]]
  /\ callers = [c \in Callers |-> Frame(src[c].call, Render(src[c].blob))]

ConcNext == \E c \in Callers : CallerStep(c) \/ CallerTokenize(c)

ConcSpec == ConcInit /\ [][ConcNext]_vars

(* ------------------- what the source text says ------------------------ *)
\* values.append('') for a bare NULL: the text the code uses as null marker
NullMarker == <<>>

NullFields == {FieldNULL, FieldNull, Fieldnull}

Quoted(f) == f # <<>> /\ f[1] = "'"

\* the characters between the opening and the closing quote of a literal
Inner(f) == SubSeq(f, 2, Len(f) - 1)

IsSuffix(a, b) ==
  Len(a) <= Len(b) /\ SubSeq(b, Len(b) - Len(a) + 1, Len(b)) = a

\* the value a literal of the source text stands for
LiteralValue(f) ==
  IF Quoted(f) THEN Inner(f)
  ELSE IF Upper(Strip(f)) = KwNull THEN NullMarker
  ELSE Strip(f)

ExpectedRow(r) == [i \in 1..Len(r.fields) |-> LiteralValue(r.fields[i])]

\* the row groups of a blob in source order
RECURSIVE Flatten(_)
Flatten(ss) == IF ss = <<>> THEN <<>> ELSE Head(ss) \o Flatten(Tail(ss))
RowGroups(b) == Flatten(b.stmts)

ExpectedRows(b) ==
  [k \in 1..Len(RowGroups(b)) |-> ExpectedRow(RowGroups(b)[k])]

\* a blob of complete INSERT statements, column list and ';' included
WellFormed(b) == b.tail = <<>> /\ b.cols # <<>>

ParserDone    == pc = "done" /\ call \in Parsers
TokenizerDone == pc = "done" /\ call \in Tokenizers /\ src \in RichRows

\* a quoted literal with its inner commas and parentheses taken out
Unpunctuated(f) ==
  IF Quoted(f)
  THEN <<"'">> \o SelectSeq(Inner(f), LAMBDA c : c \notin {",", "(", ")"})
         \o <<"'">>
  ELSE f

UnpunctuatedRow(r) ==
  Row([i \in 1..Len(r.fields) |-> Unpunctuated(r.fields[i])], r.fsep)

\* the tokenizer of the call, applied to a text
Tokenize(text) ==
  IF call = "parse_record_values" THEN parse_record_values(text)
  ELSE parse_values_string(text)

(* ------------------------------ claims -------------------------------- *)
\* C1: for every well-formed blob, in either shape, both parsers return as
\* many rows as the source text has row groups.
C1_RowCountEqualsGroups ==
  (ParserDone /\ WellFormed(src)) => Len(returned) = Len(RowGroups(src))

\* C2: INSERT INTO T (a,b,c) VALUES ('Jo, Ann', NULL, 42); parses, in both
\* parsers, to the one row "Jo, Ann", null, "42".
C2_SingleRowExample ==
  (ParserDone /\ src = ExampleSingle) =>
     returned = << <<Inner(FieldJoAnn), NullMarker, Field42>> >>

\* C3: a batch statement of k row groups parses, in both parsers, to k rows,
\* each holding only the values of its own group; so
\* INSERT INTO T (a,b) VALUES ('x'),('y, z'); gives the rows ["x"], ["y, z"].
C3_BatchRowsKeptApart ==
  (ParserDone /\ WellFormed(src) /\ Len(src.stmts) = 1
     /\ Len(src.stmts[1]) >= 2) =>
     returned = ExpectedRows(src)

\* C4: a quoted literal containing commas and parentheses is one value: the
\* number of values a tokenizer returns for a row is the number it returns
\* for the same row with those characters taken out of its quoted literals,
\* and the whole literal is the tail of the value at its position.
C4_QuotedLiteralIsOneValue ==
  TokenizerDone =>
     /\ Len(returned) = Len(Tokenize(RenderRow(UnpunctuatedRow(src))))
     /\ \A i \in 1..Len(src.fields) :
          Quoted(src.fields[i]) =>
             /\ i <= Len(returned)
             /\ IsSuffix(Inner(src.fields[i]), returned[i])

C4_Witness ==
  /\ TokenizerDone /\ call = "parse_record_values"
  /\ src.fields = <<FieldVP, Field42>>
  /\ returned = <<Inner(FieldVP), Field42>>

\* C5: the value returned for a quoted literal is exactly the characters
\* between its quotes, at every field position, in both tokenizers.
C5_QuotedValueIsContent ==
  TokenizerDone =>
     \A i \in 1..Len(src.fields) :
        Quoted(src.fields[i]) =>
           i <= Len(returned) /\ returned[i] = Inner(src.fields[i])

C7_EmptyStringIsNotNull ==
  TokenizerDone =>
     \A i, j \in 1..Len(returned) :
        (src.fields[i] = FieldEmptyQ /\ src.fields[j] \in NullFields) =>
           returned[i] # returned[j]

\* C8: rows come back in the order of their row groups, and the i-th value
\* of a row is the value of the i-th literal of its group: every returned
\* value sits at the position of its literal.
C8_ValuesAtLiteralPositions ==
  (ParserDone /\ WellFormed(src)
     /\ src \in WellFormedBlobs \cup {ExampleSingle, ExampleBatch}) =>
     \A r \in 1..Len(returned) :
        /\ r <= Len(RowGroups(src))
        /\ \A i \in 1..Len(returned[r]) :
              /\ i <= Len(RowGroups(src)[r].fields)
              /\ returned[r][i] = LiteralValue(RowGroups(src)[r].fields[i])

\* C9: an input that ends inside the unterminated quoted literal of its first
\* row, such as INSERT INTO T (a) VALUES ('unterminated, gives zero rows and
\* a malformed-input diagnostic.
C9_UnterminatedReported ==
  (ParserDone /\ src.stmts = << <<>> >> /\ src.cols # <<>>
     /\ src.tail \in {TailUnterminated, TailOpenQuote}) =>
     /\ returned = <<>>
     /\ \E k \in 1..Len(log) : log[k].level \in {"error", "warning"}

\* C10: when the batch scan ends with the parenthesis counter not 0 or
\* inside a quote, the trailing fragment is not emitted as a row and the
\* rows emitted before it are returned unchanged.
C10_MalformedTailDiscarded ==
  (ParserDone /\ call = "parse_sql_values"
     /\ scan.values_section # <<>>
     /\ scan.i >= Len(scan.values_section)
     /\ (scan.paren_count # 0 \/ scan.in_string)) =>
     /\ ret # "last"
     /\ returned = [k \in 1..Len(src.stmts[1]) |->
                      parse_record_values(RenderRow(src.stmts[1][k]))]

(* -------------------------- claims: loaders --------------------------- *)
LoaderDone == loader.pc = "done" /\ loader.parsed # <<>>

\* a row made exactly n long: padded on the right with null, or truncated
MadeLong(row, n) ==
  [i \in 1..n |-> IF i <= Len(row) THEN row[i] ELSE NullMarker]

\* C11: the values bound to a write are the row made exactly N long, N the
\* number of columns of the column list the write names, in load_sql_file
\* and in load_sample_cases_500.
C11_BoundValuesMatchColumns ==
  loader.pc \in {"loop", "done"} =>
     \A k \in 1..Len(loader.attempts) :
        LET a == loader.attempts[k]
        IN  /\ Len(a.values) = a.columns
            /\ a.values = MadeLong(loader.parsed[a.row], a.columns)

\* C12: the loop attempts every parsed row exactly once and in order,
\* whatever the outcome of each write, and the count returned is the number
\* of rows whose write succeeded.
C12_EveryRowAttemptedOnce ==
  /\ loader.pc \in {"loop", "done"} =>
        /\ Len(loader.attempts) = loader.idx
        /\ \A k \in 1..Len(loader.attempts) : loader.attempts[k].row = k
  /\ LoaderDone =>
        /\ Len(loader.attempts) = Len(loader.parsed)
        /\ loader.returned =
             Cardinality({k \in 1..Len(loader.attempts) :
                            loader.attempts[k].outcome = "inserted"})

C12_Witness ==
  /\ LoaderDone /\ loader.fn = "load_sample_cases_500"
  /\ Len(loader.attempts) = 2
  /\ loader.attempts[1].outcome = "unique"
  /\ loader.attempts[2].outcome = "inserted"
  /\ loader.returned = 1

\* C13: after a load the duplicates and the other failures are each
\* available as a count, and inserted + duplicates + failures is the
\* number of rows parsed.
C13_DuplicatesCountedSeparately ==
  LoaderDone =>
     LET s == LoadSummary(loader)
     IN  /\ {"duplicates", "failed"} \subseteq DOMAIN s
         /\ s.inserted + s.duplicates + s.failed = Len(loader.parsed)

\* C14: when a row's value count differs from the column count, the
\* summary of the load holds the count of such rows.
C14_MismatchCounted ==
  (LoaderDone /\ \E k \in 1..Len(loader.parsed) :
                    Len(loader.parsed[k]) # Columns(loader.fn)) =>
     LET s == LoadSummary(loader)
     IN  /\ "arity_mismatches" \in DOMAIN s
         /\ s.arity_mismatches =
              Cardinality({k \in 1..Len(loader.parsed) :
                             Len(loader.parsed[k]) # Columns(loader.fn)})

(* ------------------------ claims: two callers ------------------------- *)
\* the rows a call returns when it runs alone
Alone(method, text) == RunFrame(Frame(method, text)).returned

\* C15: when two callers run parse_sql_values or parse_sql_insert_statements
\* on independent blobs with their steps interleaved in any order, each
\* gets the rows it gets when it runs alone, and the fields of the object
\* are left unchanged.
C15_CallersIndependent ==
  callers # <<>> =>
    /\ object = NewObject
    /\ \A c \in Callers :
         callers[c].pc = "done" =>
            callers[c].returned = Alone(src[c].call, Render(src[c].blob))

\* both callers are done, the first after a batch scan and the second
\* after the loop over the insert statements, with different rows
C15_Witness ==
  /\ callers # <<>>
  /\ callers[1].pc = "done" /\ callers[2].pc = "done"
  /\ src[1] = [call |-> "parse_sql_values", blob |-> ConcBatch]
  /\ src[2] = [call |-> "parse_sql_insert_statements", blob |-> ExampleBatch]
  /\ Len(callers[1].returned) = 3
  /\ Len(callers[2].returned) = 1

(* ------------------------ claims: segmentation ------------------------ *)
\* the raw rows the batch scan hands to parse_record_values, in order
RECURSIVE SegmentFrom(_, _)
SegmentFrom(sc, rows) ==
  IF sc.i < Len(sc.values_section)
  THEN SegmentFrom(ScanStep(sc),
                   IF ScanEmits(sc)
                   THEN Append(rows, Strip(sc.current_record)) ELSE rows)
  ELSE IF LastRecord(sc) THEN Append(rows, Strip(sc.current_record))
  ELSE rows

Segment(values_section) == SegmentFrom(ScanInit(values_section), <<>>)

\* raw rows wrapped in parentheses again and joined by the delimiter
Rewrap(rows, gsep) ==
  Join([k \in 1..Len(rows) |-> <<"(">> \o rows[k] \o <<")">>], gsep)

BatchScanDone ==
  pc = "done" /\ call = "parse_sql_values" /\ scan.values_section # <<>>

\* C16: round trip of segmentation: the raw rows of a blob, wrapped in
\* parentheses again and rejoined with the blob's delimiter, segment into
\* the same raw rows.
C16_SegmentRoundTrip ==
  BatchScanDone =>
     LET rows == Segment(scan.values_section)
     IN  Segment(Rewrap(rows, src.gsep)) = rows

(* --------------- claims: parentheses, escapes, semicolons ------------- *)
\* rows of function-call literals and numbers, handed to a tokenizer
FnRows ==
  {r \in BareRows : /\ \A i \in 1..Len(r.fields) :
                         r.fields[i] \in {FieldFn, Field42}
                    /\ \E i \in 1..Len(r.fields) : r.fields[i] = FieldFn}

\* C17: outside quotes a comma ends a field only at parenthesis depth 0, so
\* an unquoted f(1, 2) comes back intact as one value, at its position, in
\* parse_record_values and in parse_values_string.
C17_FunctionCallLiteralIntact ==
  (pc = "done" /\ call \in Tokenizers /\ src \in FnRows) =>
     returned = src.fields

\* rows of bare fields that hold escapes and no function call
EscapedRows ==
  {r \in BareRows : \A i \in 1..Len(r.fields) : r.fields[i] # FieldFn}

\* C18: a backslash sets the escape flag and stays in the buffer; the
\* character after it is appended to the buffer and the flag is cleared,
\* with the in-quote flag, the values, the parenthesis counter and the rows
\* left as they are and no return taken; so both characters are in the
\* output. In the tokenizers and in the batch scan.
C18_EscapedCharacterInert ==
  [][/\ (pc = "tok" /\ tok.i < Len(tok.str) /\ tok.escape_next) =>
           /\ tok' = [tok EXCEPT
                        !.current_value = Append(@, At(tok.str, tok.i)),
                        !.escape_next = FALSE, !.i = @ + 1]
           /\ pc' = "tok" /\ records' = records /\ returned' = returned
     /\ (pc = "tok" /\ tok.i < Len(tok.str) /\ ~tok.escape_next
           /\ At(tok.str, tok.i) = "\\") =>
           tok' = [tok EXCEPT !.current_value = Append(@, "\\"),
                              !.escape_next = TRUE, !.i = @ + 1]
     /\ (pc = "scan" /\ scan.i < Len(scan.values_section)
           /\ scan.escape_next) =>
           /\ scan' = [scan EXCEPT
                         !.current_record =
                            Append(@, At(scan.values_section, scan.i)),
                         !.escape_next = FALSE, !.i = @ + 1]
           /\ pc' = "scan" /\ records' = records /\ returned' = returned
     /\ (pc = "scan" /\ scan.i < Len(scan.values_section)
           /\ ~scan.escape_next
           /\ At(scan.values_section, scan.i) = "\\") =>
           scan' = [scan EXCEPT !.current_record = Append(@, "\\"),
                                !.escape_next = TRUE, !.i = @ + 1]
     /\ (pc' = "done" /\ call \in Tokenizers /\ src \in EscapedRows) =>
           returned' = src.fields
     /\ (pc' = "done" /\ call \in Tokenizers /\ src \in RichRows) =>
           \A i \in 1..Len(src.fields) :
              src.fields[i] = FieldEsc =>
                 /\ i <= Len(returned')
                 /\ IsSuffix(Inner(FieldEsc), returned'[i])
     /\ (pc' = "done" /\ call = "parse_sql_values" /\ src \in EscBlobs) =>
           \A k \in 1..Len(src.stmts[1]) :
              /\ k <= Len(returned')
              /\ returned'[k] =
                   IF src.stmts[1][k].fields = <<FieldEsc>>
                   THEN <<Inner(FieldEsc)>>
                   ELSE <<FieldEscClose, Field42>>
    ]_vars

\* parse_values_string has just taken the quote of a\'b as an escaped
\* character: it is in the buffer after its backslash, still inside the
\* literal
C18_Witness ==
  /\ pc = "tok" /\ call = "parse_values_string"
  /\ tok.in_string /\ ~tok.escape_next
  /\ tok.i >= 2
  /\ At(tok.str, tok.i - 1) = "'"
  /\ IsSuffix(<<"\\", "'">>, tok.current_value)

\* C19: in the batch scan an unquoted ';' ends the scan of its statement and
\* every INSERT...VALUES header has its row list scanned on its own: the
\* rows returned are the rows of the row groups of all statements in source
\* order and nothing else (no column list, no ';').
C19_StatementsScannedApart ==
  (BatchScanDone /\ src.tail = <<>>) =>
     returned = [k \in 1..Len(RowGroups(src)) |->
                   parse_record_values(RenderRow(RowGroups(src)[k]))]

\* the parenthesis depth over a text from position k on, quotes and escapes
\* followed: never negative, and 0 at the end
RECURSIVE DepthOK(_, _, _, _, _)
DepthOK(text, k, depth, quoted, escaped) ==
  IF k > Len(text) THEN depth = 0
  ELSE IF escaped THEN DepthOK(text, k + 1, depth, quoted, FALSE)
  ELSE IF text[k] = "\\" THEN DepthOK(text, k + 1, depth, quoted, TRUE)
  ELSE IF text[k] = "'" THEN DepthOK(text, k + 1, depth, ~quoted, FALSE)
  ELSE IF quoted THEN DepthOK(text, k + 1, depth, quoted, FALSE)
  ELSE IF text[k] = "(" THEN DepthOK(text, k + 1, depth + 1, quoted, FALSE)
  ELSE IF text[k] = ")"
  THEN depth >= 1 /\ DepthOK(text, k + 1, depth - 1, quoted, FALSE)
  ELSE DepthOK(text, k + 1, depth, quoted, FALSE)

Balanced(text) == DepthOK(text, 1, 0, FALSE, FALSE)

\* C20: every raw row text handed to a tokenizer by parse_sql_values (batch
\* scan and single-statement pattern) and by parse_sql_insert_statements is
\* balanced: the depth of its unquoted parentheses never goes below 0 and
\* is 0 at its end.
C20_RawRowBalanced ==
  (pc = "tok" /\ call \in Parsers) => Balanced(tok.str)

(* ------------------------ claims: the batch scan ---------------------- *)
\* the scan after n iterations over a values section
RECURSIVE ScanTo(_, _)
ScanTo(sc, n) == IF n = 0 THEN sc ELSE ScanTo(ScanStep(sc), n - 1)

\* position p (1-based) holds a '(' that takes the counter from 0 to 1
OpensRow(values_section, p) ==
  LET before == ScanTo(ScanInit(values_section), p - 1)
  IN  /\ values_section[p] = "("
      /\ before.paren_count = 0
      /\ ~before.in_string /\ ~before.escape_next

\* C21: in the batch scan a row is captured from the '(' that takes the
\* counter from 0 to 1 and emitted at the ')' that takes it from 1 to 0: a
\* text handed to parse_record_values is the text between such a pair,
\* nested parentheses included, and holds no character met at counter 0.
C21_RowsBetweenOuterParens ==
  (pc = "tok" /\ call = "parse_sql_values" /\ ret \in {"scan", "last"}) =>
     /\ ret = "scan"
     /\ scan.values_section[scan.i] = ")"
     /\ scan.paren_count = 0
     /\ \E p \in 1..(scan.i - 1) :
           /\ OpensRow(scan.values_section, p)
           /\ \A q \in (p + 1)..(scan.i - 1) :
                 ScanTo(ScanInit(scan.values_section), q).paren_count >= 1
           /\ tok.str = Strip(SubSeq(scan.values_section, p + 1, scan.i - 1))

\* C22: in the loop of the batch scan every iteration taken with the
\* in-quote flag true leaves the parenthesis counter and the rows emitted
\* unchanged and hands nothing to the tokenizer; the in-quote flag changes
\* only at a single quote met with the escape flag false.
C22_QuotedStepsFrameCounter ==
  [][/\ (pc = "scan" /\ scan.i < Len(scan.values_section)
           /\ scan.in_string) =>
           /\ scan'.paren_count = scan.paren_count
           /\ records' = records
           /\ pc' = "scan"
     /\ (pc = "scan" /\ scan'.in_string # scan.in_string) =>
           /\ At(scan.values_section, scan.i) = "'"
           /\ ~scan.escape_next
    ]_vars

\* the scan is inside the literal 'v,(p)', just after its ')', with the
\* counter still 1
C22_Witness ==
  /\ pc = "scan" /\ scan.in_string /\ scan.paren_count = 1
  /\ scan.i >= 1
  /\ At(scan.values_section, scan.i - 1) = ")"
  /\ IsSuffix(<<"(", "p", ")">>, scan.current_record)

(* ------------------------ claims: the tokenizers ---------------------- *)
\* C23: two consecutive commas give one empty value at that position,
\* after a quoted and after an unquoted field, and the field after it keeps
\* its position: a row f,,g gives three values, the second one empty.
C23_EmptyFieldKeepsPosition ==
  (pc = "done" /\ call \in Tokenizers /\ src \in GapRows) =>
     /\ Len(returned) = 3
     /\ returned[1] = LiteralValue(src.fields[1])
     /\ returned[2] = <<>>
     /\ IsSuffix(LiteralValue(src.fields[3]), returned[3])
     /\ src.fsep = <<",">> => returned[3] = LiteralValue(src.fields[3])

\* 'a',,'a' has given the values a, empty, a
C23_Witness ==
  /\ pc = "done" /\ call = "parse_record_values"
  /\ src = Row(<<FieldA, FieldNone, FieldA>>, <<",">>)
  /\ returned = <<Inner(FieldA), <<>>, Inner(FieldA)>>

\* C24: after the closing quote of a literal, the blanks up to the next
\* comma are skipped together with that comma: they add no field and no
\* character to the next field, so 'a' , blanks, a comma and a second
\* field give exactly two values.
C24_BlanksAfterQuoteSkipped ==
  (pc = "done" /\ call \in Tokenizers /\ src \in SpacedRows) =>
     returned = ExpectedRow(src)

\* 'y, z' \t\n,42 has given the values y, z and 42
C24_Witness ==
  /\ pc = "done" /\ call = "parse_values_string"
  /\ src = Row(<<FieldYZ, Field42>>, <<" ", "\t", "\n", ",">>)
  /\ returned = <<Inner(FieldYZ), Field42>>

\* C25: at the end of a row the remaining buffer is finalized as the last
\* value exactly when it is non-empty, so the values returned are the
\* values finalized inside the row plus one for a non-empty buffer; an
\* empty row text gives the empty list.
C25_LastBufferFinalized ==
  (TokenizerDone /\ tok.i >= Len(tok.str)) =>
     /\ returned = IF tok.current_value # <<>>
                   THEN Append(tok.values, LastValue(tok.current_value))
                   ELSE tok.values
     /\ tok.str = <<>> => returned = <<>>

\* C26: an unquoted field that is not NULL is returned as its text with
\* the blanks around it removed and otherwise verbatim: 42 is the text 42,
\* and the characters inside (a blank, a backslash) are not altered.
C26_BareFieldVerbatim ==
  /\ (pc = "done" /\ call \in Tokenizers /\ src \in PaddedRows) =>
        returned = src.fields
  /\ TokenizerDone =>
        \A i \in 1..Len(src.fields) :
           src.fields[i] = Field42 =>
              i <= Len(returned) /\ returned[i] = Field42

\* 42 , a b has given the values 42 and a b
C26_Witness ==
  /\ pc = "done" /\ call = "parse_record_values"
  /\ src = Row(<<Field42, FieldInner>>, <<" ", ",", " ">>)
  /\ returned = <<Field42, FieldInner>>

\* no '(' or ')' of the text from position k on is outside the quoted
\* literals and the escapes
RECURSIVE NoBareParen(_, _, _, _)
NoBareParen(text, k, quoted, escaped) ==
  IF k > Len(text) THEN TRUE
  ELSE IF escaped THEN NoBareParen(text, k + 1, quoted, FALSE)
  ELSE IF text[k] = "\\" THEN NoBareParen(text, k + 1, quoted, TRUE)
  ELSE IF text[k] = "'" THEN NoBareParen(text, k + 1, ~quoted, FALSE)
  ELSE IF quoted THEN NoBareParen(text, k + 1, quoted, FALSE)
  ELSE text[k] \notin {"(", ")"} /\ NoBareParen(text, k + 1, quoted, FALSE)

\* C27: the two tokenizers agree: on every row text with no parenthesis
\* outside quoted literals and escapes, parse_record_values and
\* parse_values_string return the same list of values.
C27_TokenizersAgree ==
  (pc = "done" /\ call \in Tokenizers
     /\ NoBareParen(tok.str, 1, FALSE, FALSE)) =>
     /\ returned = parse_record_values(tok.str)
     /\ returned = parse_values_string(tok.str)

\* parse_values_string has returned, for 'v,(p)',42 , the values that
\* parse_record_values gives
C27_Witness ==
  /\ pc = "done" /\ call = "parse_values_string"
  /\ src.fields = <<FieldVP, Field42>>
  /\ returned = parse_record_values(tok.str)
  /\ returned = <<Inner(FieldVP), Field42>>

(* --------------------- claims: semicolons, rows ----------------------- *)
\* C28: a ';' inside a quoted literal is no statement boundary: a statement
\* whose literal holds a semicolon comes back as one row with the literal
\* whole, from parse_sql_values and from parse_sql_insert_statements, and
\* the rows of the statements after it are the rows they give alone.
C28_SemicolonInLiteral ==
  (ParserDone /\ src \in SemiBlobs
     /\ \E k \in 1..Len(src.stmts) : src.stmts[k][1].fields = <<FieldSemi>>)
  => returned = ExpectedRows(src)

\* the values of a row text under the tokenizer of the running parser
RowOf(text) ==
  IF call = "parse_sql_values" THEN parse_record_values(text)
  ELSE parse_values_string(text)

\* C29: tokenizer state is per row: every tokenizer call a parser makes
\* starts with an empty buffer, no values, both flags false and depth 0,
\* and the row it adds is the values of that row's text alone; after a row
\* whose quote never closes the next row has its own values.
C29_TokenizerStatePerRow ==
  [][/\ (pc # "tok" /\ pc' = "tok") =>
           /\ tok'.i = 0 /\ tok'.values = <<>> /\ tok'.current_value = <<>>
           /\ ~tok'.in_string /\ ~tok'.escape_next /\ tok'.paren_count = 0
     /\ (pc = "tok" /\ pc' # "tok" /\ call \in Parsers) =>
           records' = IF ret = "loop" /\ RowOf(tok.str) = <<>> THEN records
                      ELSE Append(records, RowOf(tok.str))
     /\ (pc' = "done" /\ src \in OpenBlobs
           /\ (call = "parse_sql_insert_statements" \/ src.sep = <<"\n">>)) =>
           returned' = << <<Inner(FieldX)>>, <<Inner(FieldX)>> >>
    ]_vars

\* parse_sql_insert_statements starts on the row 'x' after the row 'x whose
\* quote never closed
C29_Witness ==
  /\ pc = "tok" /\ call = "parse_sql_insert_statements"
  /\ src \in OpenBlobs
  /\ records = << <<Inner(FieldX)>> >>
  /\ tok.str = FieldX /\ tok.i = 0 /\ ~tok.in_string

(* ------------------------- claims: termination ------------------------ *)
\* C30: every scan terminates: each iteration of the batch scan and of the
\* two tokenizers moves the cursor forward (escape branch and the skipping
\* after a closing quote included) and never past the end of its text, so
\* a scan takes at most one iteration per character; at the end of the text
\* the loop is left, also when a literal never closes.
C30_ScansTerminate ==
  [][/\ (pc = "tok" /\ pc' = "tok") =>
           /\ tok.i < Len(tok.str)
           /\ tok'.str = tok.str
           /\ tok'.i > tok.i /\ tok'.i <= Len(tok.str)
     /\ (pc = "scan" /\ scan' # scan) =>
           /\ scan.i < Len(scan.values_section)
           /\ scan'.values_section = scan.values_section
           /\ scan'.i = scan.i + 1
     /\ (pc = "scan" /\ scan' = scan) => pc' \in {"tok", "done"}
     /\ pc' = "tok" =>
           \/ tok'.i < Len(tok'.str)
           \/ ret' \in {"loop", "scan", "last", "caller"}
    ]_vars

\* the tokenizer has reached the end of the row 'x with the literal still
\* open
C30_Witness ==
  /\ pc = "tok" /\ call \in Parsers
  /\ tok.str = FieldOpenQ
  /\ tok.i = Len(tok.str) /\ tok.in_string

=============================================================================
